---- MODULE Spec2Model ----
(***************************************************************************)
(* Session-based authentication API (Express): the middleware chain of     *)
(* app.js (session, csurf, router, errorHandler), the auth router          *)
(* (csrf-token, register, login, profile, logout), the in-memory login     *)
(* attempt tracker and the UserService on top of the user table.           *)
(*                                                                         *)
(* A request is a process held in a slot of req.  JavaScript runs each     *)
(* synchronous stretch of a handler to completion, so one action is one    *)
(* stretch: from the arrival of the request to its first await, and from   *)
(* the completion of an awaited call to the next await or to the response. *)
(* A slot whose response has been written stays in pc = "sent" until the   *)
(* client has read it (Deliver); it then holds the request, the response   *)
(* and the state the responding stretch started from (pre).                *)
(***************************************************************************)
EXTENDS Integers, Sequences, FiniteSets, TLC

----------------------------------------------------------------------------
(* Bounds of the model *)

MaxReqs == 2       \* request slots: requests in flight at once
MaxSid == 2        \* sessions ever generated (Spec)
MaxSidLogin == 1   \* sessions ever generated (SpecLockout, SpecRace)
MaxTicks == 2      \* clock steps
MaxElapse == 1      \* clock steps while requests overlap (SpecOverlap)
MaxDeleteId == 1    \* largest user id that is ever deleted (SpecProfile)
MaxUserId == 3      \* largest numeric userId handed to requireAuth (SpecAuth)
TickMs == 450000   \* one clock step, ms
MaxDetails == 3     \* most details a schema reports at once (SpecValidate)
MaxStrLen == 3      \* longest string handed to sanitizeInput (SpecSanitize)
MaxApply == 2       \* applications of sanitizeInput to one request (SpecSanitize)
MaxConns == 2       \* connections open at once (SpecShutdown)
MaxSignals == 2     \* signals sent to the process (SpecShutdown)
MaxUpTicks == 2     \* clock steps before the first signal (SpecShutdown)
ShutdownTickMs == 5000 \* one clock step of SpecShutdown, ms
MaxTimeoutTicks == 3   \* clock steps while one request is pending (SpecTimeout)
TimeoutTickMs == 15000 \* one clock step of SpecTimeout, ms

(* Program constants *)

MAX_LOGIN_ATTEMPTS == 5
LOCKOUT_TIME == 15 * 60 * 1000

----------------------------------------------------------------------------
(* Strings are sequences of one-character strings. *)

LowerCh == {"a","b","c","d","e","f","g","h","i","j","k","l","m",
            "n","o","p","q","r","s","t","u","v","w","x","y","z"}
UpperCh == {"A","B","C","D","E","F","G","H","I","J","K","L","M",
            "N","O","P","Q","R","S","T","U","V","W","X","Y","Z"}
DigitCh == {"0","1","2","3","4","5","6","7","8","9"}
SpecialCh == {"@","$","!","%","*","?","&"}
SpaceCh == {" "}

\* String.prototype.trim
RECURSIVE trimLeft(_)
trimLeft(s) ==
  IF s = <<>> THEN s
  ELSE IF Head(s) \in SpaceCh THEN trimLeft(Tail(s)) ELSE s

RECURSIVE trimRight(_)
trimRight(s) ==
  IF s = <<>> THEN s
  ELSE IF s[Len(s)] \in SpaceCh THEN trimRight(SubSeq(s, 1, Len(s) - 1)) ELSE s

trim(s) == trimRight(trimLeft(s))

\* .replace(/[<>]/g, '')
IsNotAngle(c) == c \notin {"<", ">"}
removeAngles(s) == SelectSeq(s, IsNotAngle)

\* A value of a body field: absent (undefined) or a string.
Missing == [def |-> FALSE, str |-> <<>>]
Str(s) == [def |-> TRUE, str |-> s]

\* sanitizeObject on one value: strings are trimmed, then stripped of < and >
sanitizeObject(v) ==
  IF v.def THEN Str(removeAngles(trim(v.str))) ELSE v

\* sanitizeInput on req.body = {username, password}
sanitizeInput(body) ==
  [username |-> sanitizeObject(body.username),
   password |-> sanitizeObject(body.password)]

----------------------------------------------------------------------------
(* Joi schemas.  Each returns the message of the first failing rule, or    *)
(* NoError.  Keys are visited in schema order, rules in declaration order. *)

NoError == "ok"

HasCh(s, set) == \E i \in 1..Len(s) : s[i] \in set
AllCh(s, set) == \A i \in 1..Len(s) : s[i] \in set

\* Joi.string().alphanum().min(3).max(30).required()
usernameRule(v) ==
  IF ~v.def THEN "\"username\" is required"
  ELSE IF v.str = <<>> THEN "\"username\" is not allowed to be empty"
  ELSE IF ~AllCh(v.str, LowerCh \cup UpperCh \cup DigitCh)
    THEN "\"username\" must only contain alpha-numeric characters"
  ELSE IF Len(v.str) < 3
    THEN "\"username\" length must be at least 3 characters long"
  ELSE IF Len(v.str) > 30
    THEN "\"username\" length must be less than or equal to 30 characters long"
  ELSE NoError

\* ^(?=.*[a-z])(?=.*[A-Z])(?=.*\d)(?=.*[@$!%*?&])[A-Za-z\d@$!%*?&]
passwordPattern(s) ==
  /\ HasCh(s, LowerCh)
  /\ HasCh(s, UpperCh)
  /\ HasCh(s, DigitCh)
  /\ HasCh(s, SpecialCh)
  /\ s # <<>>
  /\ s[1] \in LowerCh \cup UpperCh \cup DigitCh \cup SpecialCh

\* Joi.string().min(8).pattern(...).required().messages({...})
passwordRule(v) ==
  IF ~v.def THEN "\"password\" is required"
  ELSE IF v.str = <<>> THEN "\"password\" is not allowed to be empty"
  ELSE IF Len(v.str) < 8
    THEN "Le mot de passe doit contenir au moins 8 caracteres"
  ELSE IF ~passwordPattern(v.str)
    THEN "Le mot de passe doit contenir au moins une minuscule, une majuscule, un chiffre et un caractere special (@$!%*?&)"
  ELSE NoError

registerSchema(body) ==
  IF usernameRule(body.username) # NoError THEN usernameRule(body.username)
  ELSE passwordRule(body.password)

\* Joi.string().required()
requiredString(v, key) ==
  IF ~v.def THEN "\"" \o key \o "\" is required"
  ELSE IF v.str = <<>> THEN "\"" \o key \o "\" is not allowed to be empty"
  ELSE NoError

loginSchema(body) ==
  IF requiredString(body.username, "username") # NoError
    THEN requiredString(body.username, "username")
  ELSE requiredString(body.password, "password")

----------------------------------------------------------------------------
(* Password hashing and CSRF tokens.  A digest is kept as the pair it was  *)
(* computed from: it is only ever compared, never read back.               *)

BcryptSalts == {"salt1"}

\* bcrypt.hash(password, 12) with the salt it drew
bcryptHash(password, salt) == [salt |-> salt, digest |-> <<salt, password>>]

\* bcrypt.compare(password, passwordHash)
bcryptCompare(password, hash) == hash.digest = <<hash.salt, password>>

\* a verifyPassword that accepts every password
verifyPassword_Any(password, passwordHash) == TRUE

\* UserService.verifyPassword
verifyPassword(password, passwordHash) == bcryptCompare(password, passwordHash)

\* csrf tokens (csurf, cookie: false): salt + '-' + hash(salt + '-' + secret)
TokenSalts == {"t1", "t2"}
OneSalt == {"t1"}
NoToken == [salt |-> "", mac |-> <<"", 0>>]
tokensCreate(secret, salt) == [salt |-> salt, mac |-> <<salt, secret>>]
\* csurf that accepts any request
tokensVerify_Any(secret, token) == TRUE

tokensVerify(secret, token) ==
  /\ token.salt # ""
  /\ token.mac = <<token.salt, secret>>

\* a csurf that checks every method
ignoreMethod_None(method) == FALSE

\* csurf: requests of these methods are not checked
ignoreMethod(method) == method \in {"GET", "HEAD", "OPTIONS"}

----------------------------------------------------------------------------
(* State *)

VARIABLES
  users,          \* table users: username -> row
  nextId,         \* auto-increment of users.id
  loginAttempts,  \* Map ip -> [attempts, lastAttempt]
  sessions,       \* session store: sid -> session data
  nextSid,        \* next session id that generate() draws
  nextSecret,     \* next secret that csurf draws
  now,            \* Date.now(), ms
  nodeEnv,        \* process.env.NODE_ENV
  req,            \* request slots
  destroyed,      \* history: session ids that req.session.destroy removed
  registered,     \* history: username -> user.id of the 201 response
  issued,         \* history: <<session id, token>> that GET /csrf-token sent
  call            \* a middleware called on its own: arguments and outcome

vars == <<users, nextId, loginAttempts, sessions, nextSid, nextSecret, now,
          nodeEnv, req, destroyed, registered, issued, call>>

Reqs == 1..MaxReqs

Ips == {"10.0.0.1", "10.0.0.2"}
NodeEnvs == {"production"}

ann == <<"a","n","n">>
bob == <<"b","o","b">>
pwA == <<"P","a","s","s","w","0","r","d","!">>
pwB == <<"W","r","0","n","g","P","w","d","?">>

GetPaths == {"csrf-token", "profile", "health"}
PostPaths == {"register", "login", "logout"}
Paths == GetPaths \cup PostPaths
Method(path) == IF path \in GetPaths THEN "GET" ELSE "POST"
\* the routes of the auth router
AuthPaths == {"csrf-token", "profile"} \cup PostPaths

\* Bodies a client sends
ValidBodies == [username : {Str(ann), Str(bob)}, password : {Str(pwA), Str(pwB)}]
RegisterBodies ==
  ValidBodies
  \cup {[username |-> Str(<<" ","a","n","n"," ">>), password |-> Str(pwA)],
        [username |-> Str(<<"a","n">>), password |-> Str(pwA)],
        [username |-> Str(bob), password |-> Str(<<"p","a","s","s","w","0","r","d","!">>)]}
LoginBodies ==
  ValidBodies \cup {[username |-> Str(ann), password |-> Missing]}
NoBody == [username |-> Missing, password |-> Missing]

\* Bodies of the lockout and race scenarios: one user, a wrong password, an
\* unknown username
AnnBodies == {[username |-> Str(ann), password |-> Str(pwA)]}
AnnLoginBodies ==
  {[username |-> Str(ann), password |-> Str(pwA)],
   [username |-> Str(ann), password |-> Str(pwB)],
   [username |-> Str(bob), password |-> Str(pwA)]}
AnnRaceBodies == [username : {Str(ann)}, password : {Str(pwA), Str(pwB)}]

\* Session data: csrfSecret, userId, username (0 and <<>>: not set)
EmptySession == [csrfSecret |-> 0, userId |-> 0, username |-> <<>>]

NoHash == [salt |-> "", digest |-> <<"", <<>>>>]
NoUser == [id |-> 0, username |-> <<>>, passwordHash |-> NoHash,
           createdAt |-> "", updatedAt |-> ""]
NoView == [none |-> TRUE]
NoPre == [none |-> TRUE]
\* What a request found on arrival: the attempt record of its address and
\* whether its username was taken
NoArr == [attempts |-> 0, lastAttempt |-> 0, taken |-> FALSE]

IdleSlot ==
  [pc |-> "idle", path |-> "", ip |-> "", cookie |-> 0, token |-> NoToken,
   body |-> NoBody, sid |-> 0, orig |-> EmptySession, sess |-> EmptySession,
   user |-> NoUser, lookups |-> 0, verifies |-> 0,
   status |-> 0, error |-> "", code |-> "", out |-> NoView,
   clearCookie |-> FALSE, arr |-> NoArr, pre |-> NoPre]

\* Tokens a client can present: none, or one made from a secret drawn so far
TokensKnown(salts) ==
  {NoToken} \cup {tokensCreate(k, s) : k \in 1..(nextSecret - 1), s \in salts}
\* the tokens GET /csrf-token hands out on the session of this cookie
TokensOf(cookie) ==
  IF cookie \in DOMAIN sessions
    THEN {tokensCreate(sessions[cookie].csrfSecret, s) : s \in TokenSalts}
  ELSE {}

Snapshot == [users |-> users, loginAttempts |-> loginAttempts, sessions |-> sessions]

\* Map.set / store.set
Put(f, k, v) == [x \in DOMAIN f \cup {k} |-> IF x = k THEN v ELSE f[x]]
\* Map.delete / store.destroy
Del(f, k) == [x \in DOMAIN f \ {k} |-> f[x]]

NoCall == [pc |-> "none"]

InitApp ==
  /\ users = [u \in {} |-> NoUser]
  /\ nextId = 1
  /\ loginAttempts = [i \in {} |-> [attempts |-> 0, lastAttempt |-> 0]]
  /\ sessions = [s \in {} |-> EmptySession]
  /\ nextSid = 1
  /\ nextSecret = 1
  /\ now = 0
  /\ nodeEnv \in NodeEnvs
  /\ req = [r \in Reqs |-> IdleSlot]
  /\ destroyed = {}
  /\ registered = [u \in {} |-> 0]
  /\ issued = {}

Init == InitApp /\ call = NoCall

----------------------------------------------------------------------------
(* Errors and the error handler *)

EBADCSRFTOKEN == <<"E","B","A","D","C","S","R","F","T","O","K","E","N">>
LIMIT_FILE_SIZE == <<"L","I","M","I","T","_","F","I","L","E","_","S","I","Z","E">>
P2002 == <<"P","2","0","0","2">>

\* An Error: code and status are <<>> and 0 when the property is not set
Error(message) ==
  [code |-> <<>>, status |-> 0, message |-> message, isJoi |-> FALSE,
   jsonBody |-> FALSE, details |-> <<>>, stack |-> "Error: " \o message \o " at"]

\* csurf: createError(403, 'invalid csrf token', {code: 'EBADCSRFTOKEN'})
csrfError ==
  [Error("invalid csrf token") EXCEPT !.code = EBADCSRFTOKEN, !.status = 403]

\* Prisma's unique constraint violation on users.username
uniqueViolation ==
  [Error("Unique constraint failed on the fields: (username)")
     EXCEPT !.code = P2002]

Response(status, error, code) == [status |-> status, error |-> error, code |-> code]

\* startsWith that looks for a P anywhere in the code
startsWithP_Anywhere(code) == \E i \in DOMAIN code : code[i] = "P"

\* err.code && err.code.startsWith('P')
startsWithP(code) == code # <<>> /\ Head(code) = "P"

\* isDevelopment that only excludes production
isDevelopment_NotProduction(env) == env # "production"

\* process.env.NODE_ENV === 'development'
isDevelopment(env) == env = "development"

errorHandler(err, env) ==
  IF err.code = EBADCSRFTOKEN
    THEN Response(403, "Token CSRF invalide", "CSRF_TOKEN_INVALID")
  ELSE IF startsWithP(err.code)
    THEN Response(500, "Erreur de base de donnees", "DATABASE_ERROR")
  ELSE IF err.isJoi
    THEN Response(400, err.details[1], "VALIDATION_ERROR")
  ELSE IF err.jsonBody /\ err.status = 400
    THEN Response(400, "JSON malforme", "INVALID_JSON")
  ELSE IF err.code = LIMIT_FILE_SIZE
    THEN Response(413, "Fichier trop volumineux", "FILE_TOO_LARGE")
  ELSE Response(IF err.status # 0 THEN err.status ELSE 500,
                IF isDevelopment(env) THEN err.message
                ELSE "Erreur interne du serveur",
                "INTERNAL_ERROR")

\* the body handed to res.json: error and code, and in the default branch
\* the spread of (isDevelopment && { stack: err.stack })
errorJson(err, env) ==
  LET r == errorHandler(err, env)
      keys == IF r.code = "INTERNAL_ERROR" /\ isDevelopment(env)
                THEN {"error", "code", "stack"} ELSE {"error", "code"}
  IN [k \in keys |-> IF k = "error" THEN r.error
                     ELSE IF k = "code" THEN r.code ELSE err.stack]

----------------------------------------------------------------------------
(* Login attempt tracker *)

\* checkLoginAttempts that restarts the window at every refused login
checkLoginAttempts_Extend(la, ip, t) ==
  IF ip \notin DOMAIN la THEN [allowed |-> TRUE, map |-> la]
  ELSE IF la[ip].attempts >= MAX_LOGIN_ATTEMPTS
    THEN IF t - la[ip].lastAttempt < LOCKOUT_TIME
           THEN [allowed |-> FALSE,
                 map |-> Put(la, ip, [la[ip] EXCEPT !.lastAttempt = t])]
           ELSE [allowed |-> TRUE, map |-> Del(la, ip)]
  ELSE [allowed |-> TRUE, map |-> la]

\* checkLoginAttempts that keeps an expired record instead of deleting it
checkLoginAttempts_NoReset(la, ip, t) ==
  IF ip \notin DOMAIN la THEN [allowed |-> TRUE, map |-> la]
  ELSE IF la[ip].attempts >= MAX_LOGIN_ATTEMPTS
    THEN [allowed |-> ~(t - la[ip].lastAttempt < LOCKOUT_TIME), map |-> la]
  ELSE [allowed |-> TRUE, map |-> la]

\* checkLoginAttempts that blocks one failure too late (> for >=)
checkLoginAttempts_Late(la, ip, t) ==
  IF ip \notin DOMAIN la THEN [allowed |-> TRUE, map |-> la]
  ELSE IF la[ip].attempts > MAX_LOGIN_ATTEMPTS
    THEN IF t - la[ip].lastAttempt < LOCKOUT_TIME
           THEN [allowed |-> FALSE, map |-> la]
           ELSE [allowed |-> TRUE, map |-> Del(la, ip)]
  ELSE [allowed |-> TRUE, map |-> la]

\* checkLoginAttempts(ip) at time t: the answer and the map it leaves
checkLoginAttempts(la, ip, t) ==
  IF ip \notin DOMAIN la THEN [allowed |-> TRUE, map |-> la]
  ELSE IF la[ip].attempts >= MAX_LOGIN_ATTEMPTS
    THEN IF t - la[ip].lastAttempt < LOCKOUT_TIME
           THEN [allowed |-> FALSE, map |-> la]
           ELSE [allowed |-> TRUE, map |-> Del(la, ip)]
  ELSE [allowed |-> TRUE, map |-> la]

\* recordFailedAttempt that starts from a fresh record every time
recordFailedAttempt_Fresh(la, ip, t) ==
  Put(la, ip, [attempts |-> 1, lastAttempt |-> t])

recordFailedAttempt(la, ip, t) ==
  LET attempts == IF ip \in DOMAIN la THEN la[ip]
                  ELSE [attempts |-> 0, lastAttempt |-> 0]
  IN Put(la, ip, [attempts |-> attempts.attempts + 1, lastAttempt |-> t])

\* clearFailedAttempts that clears the whole map
clearFailedAttempts_All(la, ip) == [i \in {} |-> la[i]]

\* clearFailedAttempts that forgets to delete
clearFailedAttempts_Keep(la, ip) == la

clearFailedAttempts(la, ip) == Del(la, ip)

----------------------------------------------------------------------------
(* Sessions and the user table *)

\* express-session at the end of a response: the request's session is
\* written to the store when it differs from what the request started with
endSave(store, sid, orig, cur) ==
  IF cur # orig THEN Put(store, sid, cur) ELSE store

\* JavaScript values a session property can hold
Undefined == [t |-> "undefined", n |-> 0, s |-> <<>>]
Null == [t |-> "null", n |-> 0, s |-> <<>>]
Num(n) == [t |-> "number", n |-> n, s |-> <<>>]
JsStr(s) == [t |-> "string", n |-> 0, s |-> s]
Bool(b) == [t |-> "boolean", n |-> IF b THEN 1 ELSE 0, s |-> <<>>]
Obj == [t |-> "object", n |-> 0, s |-> <<>>]

\* !x is false
truthy(x) ==
  \/ x.t = "number" /\ x.n # 0
  \/ x.t = "string" /\ x.s # <<>>
  \/ x.t = "boolean" /\ x.n = 1
  \/ x.t = "object"
typeof(x) == IF x.t = "null" THEN "object" ELSE x.t

\* req.session as requireAuth reads it: undefined, null or an object with
\* its userId
NoSession(t) == [t |-> t, userId |-> Undefined]
SessionObject(userId) == [t |-> "object", userId |-> userId]
SessionOf(sess) ==
  SessionObject(IF sess.userId = 0 THEN Undefined ELSE Num(sess.userId))

\* a requireAuth that lets every request through
requireAuth_Any(session) == [next |-> 1, status |-> 0, error |-> ""]

\* requireAuth: the calls of next() and the response it sends
requireAuth(session) ==
  IF session.t # "object"
    THEN [next |-> 0, status |-> 401, error |-> "Session non disponible"]
  ELSE IF \/ ~truthy(session.userId)
          \/ typeof(session.userId) # "number" /\ typeof(session.userId) # "string"
    THEN [next |-> 0, status |-> 401, error |-> "Non autorise"]
  ELSE [next |-> 1, status |-> 0, error |-> ""]

\* a logout that answers without removing the session from the store
destroy_Keep(store, sid) == store

\* req.session.destroy
destroy(store, sid) == Del(store, sid)

\* checkDbHealth and the status GET /health answers with
checkDbHealth(up) == IF up THEN "healthy" ELSE "unhealthy"
healthStatus(dbHealth) == IF dbHealth = "healthy" THEN 200 ELSE 503

\* prisma.user.findUnique({where: {id}, select: {id, username, createdAt, updatedAt}})
findById(table, id) ==
  IF \E u \in DOMAIN table : table[u].id = id
    THEN LET row == table[CHOOSE u \in DOMAIN table : table[u].id = id]
         IN [id |-> row.id, username |-> row.username,
             createdAt |-> row.createdAt, updatedAt |-> row.updatedAt]
  ELSE NoView

\* a lookup that ignores its where clause
findByUsername_First(table, username) ==
  IF DOMAIN table = {} THEN NoUser
  ELSE table[CHOOSE u \in DOMAIN table : TRUE]

\* prisma.user.findUnique({where: {username}})
findByUsername(table, username) ==
  IF username \in DOMAIN table THEN table[username] ELSE NoUser

\* a handler that answers without touching the session
establish_Forget(sess, user) == sess

\* a handler that starts the session over when it logs the user in
establish_Rotate(sess, user) ==
  [sess EXCEPT !.userId = user.id, !.username = user.username, !.csrfSecret = 0]

\* req.session.userId = user.id; req.session.username = user.username
establish(sess, user) ==
  [sess EXCEPT !.userId = user.id, !.username = user.username]

\* a login that tells an unknown username from a wrong password
userNotFoundReply_Leak == Response(404, "Utilisateur non trouve", "")

\* the 401 of POST /login when findByUsername found nobody
userNotFoundReply == Response(401, "Identifiants invalides", "")
\* the 401 of POST /login when verifyPassword said no
badPasswordReply == Response(401, "Identifiants invalides", "")

\* GET /profile: requireAuth, then the handler
profileHandler(sess, table) ==
  IF requireAuth(SessionOf(sess)).next = 0
    THEN [reply |-> Response(requireAuth(SessionOf(sess)).status,
                             requireAuth(SessionOf(sess)).error, ""),
          out |-> NoView]
  ELSE IF findById(table, sess.userId) = NoView
    THEN [reply |-> Response(404, "Utilisateur non trouve", ""), out |-> NoView]
  ELSE [reply |-> Response(200, "", ""), out |-> findById(table, sess.userId)]

Reply(slot, resp, out) ==
  [slot EXCEPT !.pc = "sent", !.status = resp.status, !.error = resp.error,
               !.code = resp.code, !.out = out]

----------------------------------------------------------------------------
(* UserService *)

\* the catch of createUser: a unique constraint violation becomes a plain Error
createUserCatch(err) ==
  IF err.code = P2002 THEN Error("Utilisateur deja existant") ELSE err

\* the row prisma.user.create inserts, and the selection createUser returns
NewRow(id, username, passwordHash) ==
  [id |-> id, username |-> username, passwordHash |-> passwordHash,
   createdAt |-> "ts", updatedAt |-> "ts"]
\* a create without its select: the whole row comes back
CreatedView_All(row) == row

CreatedView(row) ==
  [id |-> row.id, username |-> row.username, createdAt |-> row.createdAt]

----------------------------------------------------------------------------
(* Arrival of a request: session, csurf, requestTimeout, sanitizeInput,    *)
(* then the route, up to its first await or its response.                  *)

NoneSent == \A q \in Reqs : req[q].pc # "sent"
AllIdle == \A q \in Reqs : req[q].pc = "idle"

Receive(r, path, ip, cookie, token, rawBody, maxSid, salts) ==
  /\ req[r].pc = "idle"
  /\ \A q \in Reqs : q < r => req[q].pc # "idle"
  /\ NoneSent
  /\ cookie \in DOMAIN sessions \/ nextSid <= maxSid
  /\ LET found == cookie \in DOMAIN sessions
         sid == IF found THEN cookie ELSE nextSid
         sess0 == IF found THEN sessions[cookie] ELSE EmptySession
         secret == IF sess0.csrfSecret = 0 THEN nextSecret ELSE sess0.csrfSecret
         sess1 == [sess0 EXCEPT !.csrfSecret = secret]
         csrfOk == ignoreMethod(Method(path)) \/ tokensVerify(secret, token)
         body == IF csrfOk THEN sanitizeInput(rawBody) ELSE rawBody
         arr == [attempts |-> IF ip \in DOMAIN loginAttempts
                                THEN loginAttempts[ip].attempts ELSE 0,
                 lastAttempt |-> IF ip \in DOMAIN loginAttempts
                                   THEN loginAttempts[ip].lastAttempt ELSE 0,
                 taken |-> body.username.str \in DOMAIN users]
         slot == [IdleSlot EXCEPT !.path = path, !.ip = ip, !.cookie = cookie,
                                  !.token = token, !.body = body, !.sid = sid,
                                  !.orig = sess0, !.sess = sess1, !.arr = arr,
                                  !.pre = Snapshot]
         saved == endSave(sessions, sid, sess0, sess1)
         check == checkLoginAttempts(loginAttempts, ip, now)
     IN /\ nextSid' = IF found THEN nextSid ELSE nextSid + 1
        /\ nextSecret' = IF sess0.csrfSecret = 0 THEN nextSecret + 1 ELSE nextSecret
        /\ IF ~csrfOk
             THEN \* csurf: next(err), errorHandler
                  /\ req' = [req EXCEPT ![r] =
                       Reply(slot, errorHandler(csrfError, nodeEnv), NoView)]
                  /\ sessions' = saved
                  /\ UNCHANGED <<loginAttempts, destroyed>>
           ELSE IF path = "csrf-token"
             THEN \E salt \in salts :
                  /\ req' = [req EXCEPT ![r] =
                       Reply(slot, Response(200, "", ""),
                             [csrfToken |-> tokensCreate(secret, salt)])]
                  /\ sessions' = saved
                  /\ UNCHANGED <<loginAttempts, destroyed>>
           ELSE IF path = "health"
             THEN \E up \in BOOLEAN :
                  /\ req' = [req EXCEPT ![r] =
                       Reply(slot, Response(healthStatus(checkDbHealth(up)), "", ""),
                             [status |-> checkDbHealth(up)])]
                  /\ sessions' = saved
                  /\ UNCHANGED <<loginAttempts, destroyed>>
           ELSE IF path = "register"
             THEN IF registerSchema(body) # NoError
                    THEN /\ req' = [req EXCEPT ![r] =
                              Reply(slot, Response(400, registerSchema(body), ""), NoView)]
                         /\ sessions' = saved
                         /\ UNCHANGED <<loginAttempts, destroyed>>
                    ELSE /\ req' = [req EXCEPT ![r] =
                              [slot EXCEPT !.pc = "create", !.pre = NoPre]]
                         /\ UNCHANGED <<sessions, loginAttempts, destroyed>>
           ELSE IF path = "login"
             THEN IF loginSchema(body) # NoError
                    THEN /\ req' = [req EXCEPT ![r] =
                              Reply(slot, Response(400, loginSchema(body), ""), NoView)]
                         /\ sessions' = saved
                         /\ UNCHANGED <<loginAttempts, destroyed>>
                  ELSE IF ~check.allowed
                    THEN /\ req' = [req EXCEPT ![r] =
                              Reply(slot, Response(429,
                                "Trop de tentatives de connexion. Reessayez dans 15 minutes.",
                                ""), NoView)]
                         /\ sessions' = saved
                         /\ loginAttempts' = check.map
                         /\ UNCHANGED destroyed
                    ELSE /\ req' = [req EXCEPT ![r] =
                              [slot EXCEPT !.pc = "lookup", !.pre = NoPre]]
                         /\ loginAttempts' = check.map
                         /\ UNCHANGED <<sessions, destroyed>>
           ELSE IF path = "profile"
             THEN /\ req' = [req EXCEPT ![r] =
                       Reply(slot, profileHandler(sess1, users).reply,
                             profileHandler(sess1, users).out)]
                  /\ sessions' = saved
                  /\ UNCHANGED <<loginAttempts, destroyed>>
           ELSE \* logout
                IF requireAuth(SessionOf(sess1)).next = 0
                  THEN /\ req' = [req EXCEPT ![r] =
                            Reply(slot, Response(requireAuth(SessionOf(sess1)).status,
                                                 requireAuth(SessionOf(sess1)).error, ""),
                                  NoView)]
                       /\ sessions' = saved
                       /\ UNCHANGED <<loginAttempts, destroyed>>
                  ELSE \* req.session.destroy, res.clearCookie('sid')
                       /\ req' = [req EXCEPT ![r] =
                            Reply([slot EXCEPT !.clearCookie = TRUE],
                                  Response(200, "", ""), NoView)]
                       /\ sessions' = destroy(sessions, sid)
                       /\ destroyed' = destroyed \cup {sid}
                       /\ UNCHANGED loginAttempts
  /\ UNCHANGED <<users, nextId, now, nodeEnv, registered, call>>

----------------------------------------------------------------------------
(* Continuations *)

\* POST /register after UserService.createUser settled
CreateUser(r) ==
  /\ req[r].pc = "create"
  /\ NoneSent
  /\ LET slot == [req[r] EXCEPT !.pre = Snapshot]
         username == slot.body.username.str
     IN IF username \in DOMAIN users
          THEN /\ req' = [req EXCEPT ![r] =
                    Reply(slot, errorHandler(createUserCatch(uniqueViolation), nodeEnv),
                          NoView)]
               /\ sessions' = endSave(sessions, slot.sid, slot.orig, slot.sess)
               /\ UNCHANGED <<users, nextId, registered>>
          ELSE \E salt \in BcryptSalts :
               LET row == NewRow(nextId, username,
                                 bcryptHash(slot.body.password.str, salt))
                   user == CreatedView(row)
                   sess == establish(slot.sess, user)
               IN /\ users' = Put(users, username, row)
                  /\ nextId' = nextId + 1
                  /\ req' = [req EXCEPT ![r] =
                       Reply([slot EXCEPT !.sess = sess], Response(201, "", ""), user)]
                  /\ sessions' = endSave(sessions, slot.sid, slot.orig, sess)
                  /\ registered' = Put(registered, username, user.id)
  /\ UNCHANGED <<loginAttempts, nextSid, nextSecret, now, nodeEnv, destroyed,
                 issued, call>>

\* POST /login after UserService.findByUsername settled
FindByUsername(r) ==
  /\ req[r].pc = "lookup"
  /\ NoneSent
  /\ LET slot == [req[r] EXCEPT !.pre = Snapshot, !.lookups = @ + 1]
         user == findByUsername(users, slot.body.username.str)
     IN IF user = NoUser
          THEN /\ loginAttempts' = recordFailedAttempt(loginAttempts, slot.ip, now)
               /\ req' = [req EXCEPT ![r] =
                    Reply(slot, userNotFoundReply, NoView)]
               /\ sessions' = endSave(sessions, slot.sid, slot.orig, slot.sess)
          ELSE /\ req' = [req EXCEPT ![r].pc = "verify", ![r].user = user,
                                     ![r].lookups = @ + 1]
               /\ UNCHANGED <<loginAttempts, sessions>>
  /\ UNCHANGED <<users, nextId, nextSid, nextSecret, now, nodeEnv, destroyed,
                 registered, issued, call>>

\* POST /login after UserService.verifyPassword settled
VerifyPassword(r) ==
  /\ req[r].pc = "verify"
  /\ NoneSent
  /\ LET slot == [req[r] EXCEPT !.pre = Snapshot, !.verifies = @ + 1]
         user == slot.user
     IN IF ~verifyPassword(slot.body.password.str, user.passwordHash)
          THEN /\ loginAttempts' = recordFailedAttempt(loginAttempts, slot.ip, now)
               /\ req' = [req EXCEPT ![r] =
                    Reply(slot, badPasswordReply, NoView)]
               /\ sessions' = endSave(sessions, slot.sid, slot.orig, slot.sess)
          ELSE LET sess == establish(slot.sess, user)
               IN /\ loginAttempts' = clearFailedAttempts(loginAttempts, slot.ip)
                  /\ req' = [req EXCEPT ![r] =
                       Reply([slot EXCEPT !.sess = sess], Response(200, "", ""),
                             [id |-> user.id, username |-> user.username])]
                  /\ sessions' = endSave(sessions, slot.sid, slot.orig, sess)
  /\ UNCHANGED <<users, nextId, nextSid, nextSecret, now, nodeEnv, destroyed,
                 registered, issued, call>>

\* the client has read the response
Deliver(r) ==
  /\ req[r].pc = "sent"
  /\ req' = [req EXCEPT ![r] = IdleSlot]
  /\ UNCHANGED <<users, nextId, loginAttempts, sessions, nextSid, nextSecret,
                 now, nodeEnv, destroyed, registered, issued, call>>

\* UserService.deleteUser(id), called from outside the router
DeleteUser(id) ==
  /\ AllIdle
  /\ id <= MaxDeleteId
  /\ \E u \in DOMAIN users :
       /\ users[u].id = id
       /\ users' = Del(users, u)
  /\ UNCHANGED <<nextId, loginAttempts, sessions, nextSid, nextSecret, now,
                 nodeEnv, req, destroyed, registered, issued, call>>

\* the clock advances between requests
Tick ==
  /\ AllIdle
  /\ now + TickMs <= MaxTicks * TickMs
  /\ now' = now + TickMs
  /\ UNCHANGED <<users, nextId, loginAttempts, sessions, nextSid, nextSecret,
                 nodeEnv, req, destroyed, registered, issued, call>>

----------------------------------------------------------------------------
(* Clients *)

\* A GET carries no token.  A POST carries a token of its own session, no
\* token, or a token of another session.
TokenChoices(path) == IF path \in GetPaths THEN {NoToken} ELSE TokensKnown(OneSalt)

\* Bodies sent along with a token that is not of the session
ForgedBodies(path) ==
  IF path = "register"
    THEN {[username |-> Str(ann), password |-> Str(pwA)],
          [username |-> Str(<<"a","n">>), password |-> Str(pwA)]}
  ELSE IF path = "login"
    THEN {[username |-> Str(ann), password |-> Str(pwA)],
          [username |-> Str(ann), password |-> Missing]}
  ELSE {NoBody}

BodyChoices(path, cookie, token, regBodies, loginBodies) ==
  IF token \notin TokensOf(cookie) THEN ForgedBodies(path)
  ELSE IF path = "register" THEN regBodies
  ELSE IF path = "login" THEN loginBodies
  ELSE {NoBody}

\* history of the tokens sent: the step that answers GET /csrf-token adds
\* the token of the response
RecordIssued ==
  issued' = issued \cup
    {<<req'[q].sid, req'[q].out.csrfToken>> :
       q \in {x \in Reqs : /\ req[x].pc # "sent" /\ req'[x].pc = "sent"
                           /\ req'[x].path = "csrf-token"
                           /\ req'[x].status = 200}}

Arrive(r, paths, ips, regBodies, loginBodies, maxSid) ==
  \E path \in paths, ip \in ips, cookie \in 0..(nextSid - 1) :
    \E token \in TokenChoices(path) :
      \E rawBody \in BodyChoices(path, cookie, token, regBodies, loginBodies) :
        Receive(r, path, ip, cookie, token, rawBody, maxSid, OneSalt)

----------------------------------------------------------------------------
(* Spec: the whole protocol, one request at a time, the clock standing.    *)

Next ==
  \/ \E r \in Reqs :
       /\ AllIdle
       /\ Arrive(r, AuthPaths, {"10.0.0.1"}, RegisterBodies, LoginBodies, MaxSid)
       /\ UNCHANGED issued
  \/ \E r \in Reqs : CreateUser(r)
  \/ \E r \in Reqs : FindByUsername(r)
  \/ \E r \in Reqs : VerifyPassword(r)
  \/ \E r \in Reqs : Deliver(r)

Spec == Init /\ [][Next]_vars

(* SpecLockout: logins of one user from two addresses, one request at a    *)
(* time, the clock advancing between requests.                             *)

NextLockout ==
  \/ \E r \in Reqs :
       /\ AllIdle
       /\ Arrive(r, {"csrf-token", "register", "login"}, Ips,
                 AnnBodies, AnnLoginBodies, MaxSidLogin)
       /\ UNCHANGED issued
  \/ \E r \in Reqs : CreateUser(r)
  \/ \E r \in Reqs : FindByUsername(r)
  \/ \E r \in Reqs : VerifyPassword(r)
  \/ \E r \in Reqs : Deliver(r)
  \/ Tick

SpecLockout == Init /\ [][NextLockout]_vars

(* SpecRace: registers and logins of one username that overlap.            *)

NextRace ==
  \/ \E r \in Reqs :
       /\ Arrive(r, {"csrf-token", "register", "login"}, {"10.0.0.1"},
                 AnnRaceBodies, AnnRaceBodies, MaxSidLogin)
       /\ UNCHANGED issued
  \/ \E r \in Reqs : CreateUser(r)
  \/ \E r \in Reqs : FindByUsername(r)
  \/ \E r \in Reqs : VerifyPassword(r)
  \/ \E r \in Reqs : Deliver(r)

SpecRace == Init /\ [][NextRace]_vars

(* SpecProfile: one user who registers, logs in, reads the profile and is  *)
(* deleted, one request at a time.                                         *)

NextProfile ==
  \/ \E r \in Reqs :
       /\ AllIdle
       /\ Arrive(r, {"csrf-token", "register", "login", "profile"}, {"10.0.0.1"},
                 AnnBodies, AnnBodies, MaxSidLogin)
       /\ UNCHANGED issued
  \/ \E r \in Reqs : CreateUser(r)
  \/ \E r \in Reqs : FindByUsername(r)
  \/ \E r \in Reqs : VerifyPassword(r)
  \/ \E r \in Reqs : Deliver(r)
  \/ \E id \in 1..MaxDeleteId : DeleteUser(id)

SpecProfile == Init /\ [][NextProfile]_vars

(* SpecCsrf: every request with every token a client can hold, on two      *)
(* sessions, one request at a time.                                        *)

ArriveAnyToken(r, maxSid) ==
  \E path \in Paths, cookie \in 0..(nextSid - 1) :
    \E token \in TokensKnown(TokenSalts) :
      \E rawBody \in BodyChoices(path, cookie, token, AnnBodies, AnnBodies) :
        Receive(r, path, "10.0.0.1", cookie, token, rawBody, maxSid, TokenSalts)

NextCsrf ==
  \/ \E r \in Reqs : AllIdle /\ ArriveAnyToken(r, MaxSid) /\ RecordIssued
  \/ \E r \in Reqs : CreateUser(r)
  \/ \E r \in Reqs : FindByUsername(r)
  \/ \E r \in Reqs : VerifyPassword(r)
  \/ \E r \in Reqs : Deliver(r)

SpecCsrf == Init /\ [][NextCsrf]_vars

(* SpecFrame: every route of the auth router from two addresses, one      *)
(* request at a time, the clock advancing between requests.                *)

NextFrame ==
  \/ \E r \in Reqs :
       /\ AllIdle
       /\ Arrive(r, AuthPaths, Ips, AnnBodies,
                 AnnLoginBodies \cup {[username |-> Str(ann), password |-> Missing]},
                 MaxSidLogin)
       /\ UNCHANGED issued
  \/ \E r \in Reqs : CreateUser(r)
  \/ \E r \in Reqs : FindByUsername(r)
  \/ \E r \in Reqs : VerifyPassword(r)
  \/ \E r \in Reqs : Deliver(r)
  \/ Tick

SpecFrame == Init /\ [][NextFrame]_vars

(* SpecRegister: registrations around the limits of the schema, one        *)
(* request at a time.                                                       *)

Repeat(ch, n) == [i \in 1..n |-> ch]

RuleUsernames ==
  {ann, <<"a","n">>, <<"a","_","n">>, Repeat("a", 30), Repeat("a", 31)}
RulePasswords ==
  {pwA,
   <<"#","P","a","s","s","w","0","r","d","!">>,
   <<"P","a","s","s"," ","w","0","r","d","!">>,
   <<"P","a","s","s","w","0","r","d">>,
   <<"p","a","s","s","w","0","r","d","!">>,
   <<"P","w","0","r","d","!","x">>}
RuleBodies ==
  {[username |-> Str(u), password |-> Str(pwA)] : u \in RuleUsernames}
  \cup {[username |-> Str(ann), password |-> Str(p)] : p \in RulePasswords}
  \cup {[username |-> Str(ann), password |-> Missing]}

NextRegister ==
  \/ \E r \in Reqs :
       /\ AllIdle
       /\ Arrive(r, {"csrf-token", "register"}, {"10.0.0.1"}, RuleBodies, {},
                 MaxSidLogin)
       /\ UNCHANGED issued
  \/ \E r \in Reqs : CreateUser(r)
  \/ \E r \in Reqs : Deliver(r)

SpecRegister == Init /\ [][NextRegister]_vars

(* SpecOverlap: requests of one client on one session that overlap, the    *)
(* clock advancing while they are in flight.                               *)

\* time passes, also while requests are in flight
Elapse ==
  /\ NoneSent
  /\ now + TickMs <= MaxElapse * TickMs
  /\ now' = now + TickMs
  /\ UNCHANGED <<users, nextId, loginAttempts, sessions, nextSid, nextSecret,
                 nodeEnv, req, destroyed, registered, issued, call>>

NextOverlap ==
  \/ \E r \in Reqs :
       /\ Arrive(r, {"csrf-token", "register", "login", "logout"}, {"10.0.0.1"},
                 AnnBodies, AnnRaceBodies, MaxSidLogin)
       /\ UNCHANGED issued
  \/ \E r \in Reqs : CreateUser(r)
  \/ \E r \in Reqs : FindByUsername(r)
  \/ \E r \in Reqs : VerifyPassword(r)
  \/ \E r \in Reqs : Deliver(r)
  \/ Elapse

SpecOverlap == Init /\ [][NextOverlap]_vars

(* SpecAuth: requireAuth called on its own with a request whose session   *)
(* is missing, null, or an object holding any kind of userId.              *)

UserIdValues ==
  {Undefined, Null, Obj, Bool(TRUE), Bool(FALSE)}
  \cup {Num(n) : n \in 0..MaxUserId}
  \cup {JsStr(x) : x \in {<<>>, <<"0">>, <<"1">>, <<"1","2","3">>, ann}}
SessionValues ==
  {NoSession("undefined"), NoSession("null")}
  \cup {SessionObject(v) : v \in UserIdValues}

InitAuth ==
  /\ InitApp
  /\ call \in [pc : {"ready"}, session : SessionValues,
               cookie : 0..MaxSid, ip : Ips, path : {"profile", "logout"},
               next : {0}, status : {0}, error : {""}]

CallRequireAuth ==
  /\ call.pc = "ready"
  /\ call' = [call EXCEPT !.pc = "done",
                          !.next = requireAuth(call.session).next,
                          !.status = requireAuth(call.session).status,
                          !.error = requireAuth(call.session).error]
  /\ UNCHANGED <<users, nextId, loginAttempts, sessions, nextSid, nextSecret,
                 now, nodeEnv, req, destroyed, registered, issued>>

NextAuth == CallRequireAuth

SpecAuth == InitAuth /\ [][NextAuth]_vars

(* SpecRetry: withRetry called on its own with an operation that fails or  *)
(* succeeds as the environment decides.  The operation's promise settles   *)
(* and the timer of the delay fires, which is the fairness of SpecRetry.    *)

MAX_RETRIES == 3
RETRY_DELAY == 1000

P1001 == <<"P","1","0","0","1">>
P1002 == <<"P","1","0","0","2">>
P1008 == <<"P","1","0","0","8">>
P1017 == <<"P","1","0","1","7">>
retryableCodes == {P1001, P1002, P1008, P1017}

timeoutWord == <<"t","i","m","e","o","u","t">>
connectionWord == <<"c","o","n","n","e","c","t","i","o","n">>

\* String.prototype.includes
includes(s, w) ==
  \E i \in 0..(Len(s) - Len(w)) : SubSeq(s, i + 1, i + Len(w)) = w

\* isRetryableError that retries whatever the error
isRetryableError_All(error) == TRUE

isRetryableError(error) ==
  \/ error.code \in retryableCodes
  \/ includes(error.message, timeoutWord)
  \/ includes(error.message, connectionWord)

\* what a call of the operation settles with: a value, or an error
Resolved == [ok |-> TRUE, code |-> <<>>, message |-> <<>>]
Rejected(code, message) == [ok |-> FALSE, code |-> code, message |-> message]

Outcomes ==
  {Resolved}
  \cup {Rejected(c, <<"d","b">>) : c \in retryableCodes}
  \cup {Rejected(<<>>, <<"a"," ">> \o timeoutWord \o <<"s">>),
        Rejected(<<>>, <<"n","o"," ">> \o connectionWord),
        Rejected(<<>>, <<"T","i","m","e","o","u","t">>),
        Rejected(<<>>, <<"b","o","o","m">>),
        Rejected(P2002, <<"u","n","i","q","u","e">>)}

\* the methods of UserService that hand their operation to withRetry
RetriedOperations == {"createUser", "findByUsername", "findById"}

InitRetry ==
  /\ InitApp
  /\ call \in [pc : {"operation"}, op : RetriedOperations,
               retries : {MAX_RETRIES}, outcomes : {<<>>}, at : {<<>>}]

\* await operation(): return its value, or catch its error and either
\* start the delay or rethrow
Operation(outcome) ==
  /\ call.pc = "operation"
  /\ call' = [call EXCEPT
       !.outcomes = Append(@, outcome),
       !.at = Append(@, now),
       !.pc = IF outcome.ok THEN "returned"
              ELSE IF call.retries > 0 /\ isRetryableError(outcome) THEN "delay"
              ELSE "thrown"]
  /\ UNCHANGED <<users, nextId, loginAttempts, sessions, nextSid, nextSecret,
                 now, nodeEnv, req, destroyed, registered, issued>>

\* the timer of RETRY_DELAY fires: withRetry(operation, retries - 1)
Delay ==
  /\ call.pc = "delay"
  /\ now' = now + RETRY_DELAY
  /\ call' = [call EXCEPT !.pc = "operation", !.retries = @ - 1]
  /\ UNCHANGED <<users, nextId, loginAttempts, sessions, nextSid, nextSecret,
                 nodeEnv, req, destroyed, registered, issued>>

NextRetry ==
  \/ \E outcome \in Outcomes : Operation(outcome)
  \/ Delay

SpecRetry == InitRetry /\ [][NextRetry]_vars /\ WF_vars(NextRetry)

(* SpecTimeout: one request through the router of /api.  The auth router  *)
(* enters requestTimeout(30000) before its routes; GET / and GET /health    *)
(* are routes of the parent router, which enters no requestTimeout.  The    *)
(* middleware is also called on its own with other arguments.  The handler  *)
(* behind it answers with res.status(..).json(..) at some time, or never.   *)

DefaultTimeoutMs == 30000
AuthTimeoutMs == 30000
REQUEST_TIMEOUT == "REQUEST_TIMEOUT"

\* requestTimeout(timeoutMs = 30000): 0 stands for an omitted argument
timeoutMs(arg) == IF arg = 0 THEN DefaultTimeoutMs ELSE arg

\* clearTimeout that leaves the timer pending
clearTimeout_Keep(timer) == timer

\* clearTimeout: a pending timer is cancelled, any other is left as it is
clearTimeout(timer) == IF timer = "armed" THEN "cleared" ELSE timer

HandlerStatuses == {200, 201, 400, 401, 404, 409, 429, 500, 503}

Mounts ==
  {[mount |-> "own", arg |-> 0], [mount |-> "own", arg |-> TimeoutTickMs],
   [mount |-> "auth", arg |-> AuthTimeoutMs],
   [mount |-> "health", arg |-> 0], [mount |-> "root", arg |-> 0]}

InitTimeout ==
  /\ InitApp
  /\ \E m \in Mounts :
       call = [pc |-> "ready", mount |-> m.mount, arg |-> m.arg,
               timer |-> "none", deadline |-> 0, next |-> 0,
               headersSent |-> FALSE, status |-> 0, error |-> "", code |-> "",
               responses |-> 0, handled |-> FALSE]

\* the response an unanswered request gets from res.status(s).json(body);
\* once the headers are sent a second answer throws and writes nothing
Json(c, status, error, code) ==
  IF c.headersSent THEN c
  ELSE [c EXCEPT !.headersSent = TRUE, !.status = status, !.error = error,
                 !.code = code, !.responses = @ + 1]

\* requestTimeout's middleware is entered: timer set, res.send wrapped, next()
EnterTimeout ==
  /\ call.pc = "ready"
  /\ call.mount \in {"own", "auth"}
  /\ call' = [call EXCEPT !.pc = "pending", !.timer = "armed",
                          !.deadline = now + timeoutMs(call.arg),
                          !.next = @ + 1]
  /\ UNCHANGED <<users, nextId, loginAttempts, sessions, nextSid, nextSecret,
                 now, nodeEnv, req, destroyed, registered, issued>>

\* GET /: answered in the step it arrives
Root ==
  /\ call.pc = "ready"
  /\ call.mount = "root"
  /\ call' = [Json(call, 200, "", "") EXCEPT !.pc = "pending", !.handled = TRUE]
  /\ UNCHANGED <<users, nextId, loginAttempts, sessions, nextSid, nextSecret,
                 now, nodeEnv, req, destroyed, registered, issued>>

\* GET /health: the handler starts and awaits checkDbHealth()
Health ==
  /\ call.pc = "ready"
  /\ call.mount = "health"
  /\ call' = [call EXCEPT !.pc = "pending"]
  /\ UNCHANGED <<users, nextId, loginAttempts, sessions, nextSid, nextSecret,
                 now, nodeEnv, req, destroyed, registered, issued>>

\* the handler's awaited call returns and it answers through the wrapped
\* res.send, which clears the timer first
Send(status) ==
  /\ call.pc = "pending"
  /\ ~call.handled
  /\ call' = [Json(call, status, IF status >= 400 THEN "error" ELSE "", "")
                EXCEPT !.handled = TRUE, !.timer = clearTimeout(call.timer)]
  /\ UNCHANGED <<users, nextId, loginAttempts, sessions, nextSid, nextSecret,
                 now, nodeEnv, req, destroyed, registered, issued>>

\* the timer's callback
Fire ==
  /\ call.timer = "armed"
  /\ now >= call.deadline
  /\ call' = [(IF ~call.headersSent
                 THEN Json(call, 408, "Timeout de la requete", REQUEST_TIMEOUT)
                 ELSE call)
                EXCEPT !.timer = "fired"]
  /\ UNCHANGED <<users, nextId, loginAttempts, sessions, nextSid, nextSecret,
                 now, nodeEnv, req, destroyed, registered, issued>>

\* time passes, up to the moment a pending timer is due; a timer that is
\* due fires before time passes further
Pass ==
  /\ call.pc = "pending"
  /\ ~(call.timer = "armed" /\ now >= call.deadline)
  /\ now + TimeoutTickMs <= MaxTimeoutTicks * TimeoutTickMs
  /\ now' = IF call.timer = "armed" /\ call.deadline < now + TimeoutTickMs
              THEN call.deadline
              ELSE now + TimeoutTickMs
  /\ UNCHANGED <<users, nextId, loginAttempts, sessions, nextSid, nextSecret,
                 nodeEnv, req, destroyed, registered, issued, call>>

NextTimeout ==
  \/ EnterTimeout
  \/ Root
  \/ Health
  \/ \E status \in HandlerStatuses : Send(status)
  \/ Fire
  \/ Pass

SpecTimeout ==
  InitTimeout /\ [][NextTimeout]_vars /\ WF_vars(Fire) /\ WF_vars(Pass)
              /\ WF_vars(EnterTimeout \/ Root \/ Health)

(* SpecValidate: validate(schema) called on its own, with the schemas of   *)
(* the router and with a schema that reports any list of details.           *)

DetailMessages == {"Erreur 1", "Erreur 2", "Erreur 3"}

RECURSIVE DetailLists(_)
DetailLists(n) ==
  IF n = 0 THEN {<<>>}
  ELSE DetailLists(n - 1)
       \cup {Append(d, m) : d \in {x \in DetailLists(n - 1) : Len(x) = n - 1},
                            m \in DetailMessages}

\* schema.validate(req.body).error.details; Joi stops at the first failing
\* rule (abortEarly), so the schemas of the router report one detail
schemaValidate(schema, body, mocked) ==
  IF schema = "register"
    THEN IF registerSchema(body) = NoError THEN <<>> ELSE <<registerSchema(body)>>
  ELSE IF schema = "login"
    THEN IF loginSchema(body) = NoError THEN <<>> ELSE <<loginSchema(body)>>
  ELSE mocked

\* the body of a response: no response written yet has no field
NoJson == [k \in {} |-> ""]

\* validate that answers with the last detail
validateReply_Last(details) == [k \in {"error"} |-> details[Len(details)]]

\* { error: error.details[0].message }
validateReply(details) == [k \in {"error"} |-> details[1]]

InitValidate ==
  /\ InitApp
  /\ \E c \in [schema : {"register"}, body : RuleBodies, mocked : {<<>>}]
           \cup [schema : {"login"}, body : LoginBodies, mocked : {<<>>}]
           \cup [schema : {"mock"}, body : {NoBody}, mocked : DetailLists(MaxDetails)] :
       call = [pc |-> "ready", schema |-> c.schema, body |-> c.body,
               mocked |-> c.mocked, details |-> <<>>, next |-> 0, status |-> 0,
               json |-> NoJson]

CallValidate ==
  /\ call.pc = "ready"
  /\ LET details == schemaValidate(call.schema, call.body, call.mocked)
     IN call' = IF details # <<>>
                  THEN [call EXCEPT !.pc = "done", !.details = details,
                                    !.status = 400,
                                    !.json = validateReply(details)]
                  ELSE [call EXCEPT !.pc = "done", !.details = details,
                                    !.next = @ + 1]
  /\ UNCHANGED <<users, nextId, loginAttempts, sessions, nextSid, nextSecret,
                 now, nodeEnv, req, destroyed, registered, issued>>

NextValidate == CallValidate

SpecValidate == InitValidate /\ [][NextValidate]_vars

(* SpecError: errorHandler called on its own with errors of every shape    *)
(* the middlewares and handlers before it produce, under each NODE_ENV.      *)

EPIPE == <<"E","P","I","P","E">>

ErrorCodes == {<<>>, EBADCSRFTOKEN, P2002, P1001, <<"P">>, LIMIT_FILE_SIZE, EPIPE}
ErrorStatusValues == {0, 400, 404, 413}
ErrorValues ==
  {[code |-> c, status |-> st, message |-> m, isJoi |-> d # <<>>,
    jsonBody |-> j, details |-> d, stack |-> "Error: " \o m \o " at"] :
     c \in ErrorCodes, st \in ErrorStatusValues, m \in {"", "secret"},
     d \in {<<>>, <<"detail 1">>, <<"detail 1", "detail 2">>},
     j \in BOOLEAN}

\* values of process.env.NODE_ENV; "" stands for unset
EnvValues == {"development", "Development", "production", "test", ""}

InitError ==
  /\ InitApp
  /\ \E e \in ErrorValues, env \in EnvValues :
       call = [pc |-> "ready", err |-> e, env |-> env, status |-> 0,
               json |-> NoJson, responses |-> 0, next |-> 0]

CallErrorHandler ==
  /\ call.pc = "ready"
  /\ call' = [call EXCEPT !.pc = "done",
                          !.status = errorHandler(call.err, call.env).status,
                          !.json = errorJson(call.err, call.env),
                          !.responses = @ + 1]
  /\ UNCHANGED <<users, nextId, loginAttempts, sessions, nextSid, nextSecret,
                 now, nodeEnv, req, destroyed, registered, issued>>

NextError == CallErrorHandler

SpecError == InitError /\ [][NextError]_vars

(* SpecAsync: asyncHandler(fn) called with handlers of every kind: an     *)
(* async function or a plain one, that returns, throws, or returns a        *)
(* rejected promise, after answering or not.                                *)

HandlerErrors ==
  {Error("boom"), Error(""), csrfError, uniqueViolation,
   [Error("not found") EXCEPT !.status = 404]}

Handlers ==
  [async : BOOLEAN, does : {"return", "throw", "reject"},
   err : HandlerErrors, answers : {0, 200, 201, 400}]

InitAsync ==
  /\ InitApp
  /\ \E fn \in Handlers :
       call = [pc |-> "ready", fn |-> fn, calls |-> 0, promise |-> "none",
               threw |-> FALSE, passed |-> <<>>, status |-> 0]

\* fn(req, res, next) is evaluated first: a throw of a plain function leaves
\* the wrapper before Promise.resolve is reached; an async function turns
\* its throw into a rejected promise
CallWrapped ==
  /\ call.pc = "ready"
  /\ LET fn == call.fn
         throws == ~fn.async /\ fn.does = "throw"
     IN call' = [call EXCEPT
          !.calls = @ + 1,
          !.status = fn.answers,
          !.threw = throws,
          !.promise = IF throws THEN "none"
                      ELSE IF fn.does = "return" THEN "resolved"
                      ELSE "rejected",
          !.pc = IF throws THEN "done" ELSE "returned"]
  /\ UNCHANGED <<users, nextId, loginAttempts, sessions, nextSid, nextSecret,
                 now, nodeEnv, req, destroyed, registered, issued>>

\* the promise settles: .catch(next) hands the reason of a rejection to next
Settle ==
  /\ call.pc = "returned"
  /\ call' = [call EXCEPT
       !.pc = "done",
       !.passed = IF call.promise = "rejected" THEN Append(@, call.fn.err) ELSE @]
  /\ UNCHANGED <<users, nextId, loginAttempts, sessions, nextSid, nextSecret,
                 now, nodeEnv, req, destroyed, registered, issued>>

NextAsync == CallWrapped \/ Settle

SpecAsync == InitAsync /\ [][NextAsync]_vars

(* SpecSanitize: sanitizeInput called on requests whose body, query and   *)
(* params hold strings, other primitives and nested objects, and called     *)
(* again on the request it left.                                            *)

\* an object with its own enumerable properties
ObjectOf(f) == [t |-> "object", n |-> 0, s |-> <<>>, f |-> f]
Field(k, v) == [x \in {k} |-> v]

\* sanitizing of a string that only trims
sanitizeString_TrimOnly(s) == trim(s)

\* obj.trim().replace(/[<>]/g, '')
sanitizeString(s) == removeAngles(trim(s))

\* sanitizeObject on any value: a string is cleaned, the properties of an
\* object are replaced in place by their sanitized values, anything else is
\* returned as it is
RECURSIVE sanitizeValue(_)
sanitizeValue(obj) ==
  IF typeof(obj) = "string" THEN JsStr(sanitizeString(obj.s))
  ELSE IF typeof(obj) = "object" /\ obj # Null
    THEN ObjectOf([key \in DOMAIN obj.f |-> sanitizeValue(obj.f[key])])
  ELSE obj

RECURSIVE StringsUpTo(_)
StringsUpTo(n) ==
  IF n = 0 THEN {<<>>}
  ELSE StringsUpTo(n - 1)
       \cup {Append(x, c) : x \in {y \in StringsUpTo(n - 1) : Len(y) = n - 1},
                            c \in {" ", "<", ">", "a"}}

Primitives ==
  {JsStr(x) : x \in StringsUpTo(MaxStrLen)}
  \cup {Undefined, Null, Num(0), Num(25), Bool(TRUE), Bool(FALSE)}
BodyValues ==
  Primitives
  \cup {ObjectOf(<<>>)}
  \cup {ObjectOf(Field("username", v)) : v \in Primitives}
  \cup {ObjectOf(Field("user", ObjectOf(Field("name", v)))) : v \in Primitives}
QueryValues ==
  {ObjectOf(<<>>), ObjectOf(Field("search", JsStr(<<" ", "<", "a">>))),
   ObjectOf(Field("limit", JsStr(<<"a">>)))}
ParamValues ==
  {ObjectOf(<<>>), ObjectOf(Field("id", JsStr(<<"a", " ">>)))}

InitSanitize ==
  /\ InitApp
  /\ \E b \in BodyValues, q \in QueryValues, pa \in ParamValues :
       call = [pc |-> "ready", orig |-> [body |-> b, query |-> q, params |-> pa],
               req |-> [body |-> b, query |-> q, params |-> pa],
               seen |-> <<>>, next |-> 0, passed |-> <<>>]

\* sanitizeInput(req, res, next)
CallSanitizeInput ==
  /\ Len(call.seen) < MaxApply
  /\ LET out == [body |-> sanitizeValue(call.req.body),
                 query |-> sanitizeValue(call.req.query),
                 params |-> sanitizeValue(call.req.params)]
     IN call' = [call EXCEPT !.pc = "done", !.req = out,
                             !.seen = Append(@, out), !.next = @ + 1]
  /\ UNCHANGED <<users, nextId, loginAttempts, sessions, nextSid, nextSecret,
                 now, nodeEnv, req, destroyed, registered, issued>>

NextSanitize == CallSanitizeInput

SpecSanitize == InitSanitize /\ [][NextSanitize]_vars

(* SpecShutdown: the process after app.listen.  Connections open and end   *)
(* as the clients decide; SIGTERM and SIGINT run gracefulShutdown.  The      *)
(* close event of a server that has stopped listening and has no            *)
(* connection left is emitted, and a timer that is due fires: that is the   *)
(* fairness of SpecShutdown.                                                *)

FORCE_EXIT_MS == 10000

\* exit code that is 0 for the forced exit too
exitCode_Zero(event) == 0

\* process.exit(0) in the callback of server.close, process.exit(1) in the
\* callback of the timer
exitCode(event) == IF event = "close" THEN 0 ELSE 1

InitShutdown ==
  /\ InitApp
  /\ call = [pc |-> "listening", conns |-> 0, signals |-> <<>>, timers |-> {},
             closeCallbacks |-> 0, code |-> 0, event |-> "", signalledAt |-> 0]

\* a client connects
Connect ==
  /\ call.pc = "listening"
  /\ call.conns < MaxConns
  /\ call' = [call EXCEPT !.conns = @ + 1]
  /\ UNCHANGED <<users, nextId, loginAttempts, sessions, nextSid, nextSecret,
                 now, nodeEnv, req, destroyed, registered, issued>>

\* a connection ends
Disconnect ==
  /\ call.pc \in {"listening", "closing"}
  /\ call.conns > 0
  /\ call' = [call EXCEPT !.conns = @ - 1]
  /\ UNCHANGED <<users, nextId, loginAttempts, sessions, nextSid, nextSecret,
                 now, nodeEnv, req, destroyed, registered, issued>>

\* gracefulShutdown(signal): server.close(callback) and the timer
Signal(signal) ==
  /\ call.pc \in {"listening", "closing"}
  /\ Len(call.signals) < MaxSignals
  /\ call' = [call EXCEPT !.pc = "closing",
                          !.signals = Append(@, signal),
                          !.closeCallbacks = @ + 1,
                          !.timers = @ \cup {now + FORCE_EXIT_MS},
                          !.signalledAt = IF call.signals = <<>> THEN now ELSE @]
  /\ UNCHANGED <<users, nextId, loginAttempts, sessions, nextSid, nextSecret,
                 now, nodeEnv, req, destroyed, registered, issued>>

\* the server emits close: the callback of server.close exits
ServerClosed ==
  /\ call.pc = "closing"
  /\ call.conns = 0
  /\ call.closeCallbacks > 0
  /\ call' = [call EXCEPT !.pc = "exited", !.event = "close",
                          !.code = exitCode("close")]
  /\ UNCHANGED <<users, nextId, loginAttempts, sessions, nextSid, nextSecret,
                 now, nodeEnv, req, destroyed, registered, issued>>

\* the timer of the forced exit fires
ForceExit ==
  /\ call.pc = "closing"
  /\ \E d \in call.timers : now >= d
  /\ call' = [call EXCEPT !.pc = "exited", !.event = "timer",
                          !.code = exitCode("timer")]
  /\ UNCHANGED <<users, nextId, loginAttempts, sessions, nextSid, nextSecret,
                 now, nodeEnv, req, destroyed, registered, issued>>

\* time passes: up to MaxUpTicks steps while the server listens, and up to
\* the moment a timer is due afterwards
Wait ==
  /\ call.pc \in {"listening", "closing"}
  /\ call.pc = "listening" => now + ShutdownTickMs <= MaxUpTicks * ShutdownTickMs
  /\ \A d \in call.timers : now < d
  /\ now' = IF \E d \in call.timers : d < now + ShutdownTickMs
              THEN CHOOSE d \in call.timers : \A e \in call.timers : d <= e
              ELSE now + ShutdownTickMs
  /\ UNCHANGED <<users, nextId, loginAttempts, sessions, nextSid, nextSecret,
                 nodeEnv, req, destroyed, registered, issued, call>>

NextShutdown ==
  \/ Connect
  \/ Disconnect
  \/ \E signal \in {"SIGTERM", "SIGINT"} : Signal(signal)
  \/ ServerClosed
  \/ ForceExit
  \/ Wait

SpecShutdown ==
  InitShutdown /\ [][NextShutdown]_vars
               /\ WF_vars(ServerClosed) /\ WF_vars(ForceExit) /\ WF_vars(Wait)

----------------------------------------------------------------------------
(* Properties.  They read the slot whose response has just been written:   *)
(* the request as it arrived, what it found on arrival (arr), the state    *)
(* its last stretch started from (pre) and the state it left.              *)

Sent(r) == req[r].pc = "sent"

\* the request carries a token made from the secret of its own session
PresentsSessionToken(q) ==
  /\ q.token.salt # ""
  /\ q.token.mac = <<q.token.salt, q.sess.csrfSecret>>

\* userId and username of every session are as before; a session that was
\* not there before has none
SameIdentity(old, new) ==
  /\ \A s \in DOMAIN old :
       /\ s \in DOMAIN new
       /\ new[s].userId = old[s].userId
       /\ new[s].username = old[s].username
  /\ \A s \in DOMAIN new \ DOMAIN old :
       new[s].userId = 0 /\ new[s].username = <<>>

HasCredentials(q) ==
  /\ q.body.username.def /\ q.body.username.str # <<>>
  /\ q.body.password.def /\ q.body.password.str # <<>>

Known(q) == q.body.username.str \in DOMAIN q.pre.users
PasswordMatches(q) ==
  /\ Known(q)
  /\ LET h == q.pre.users[q.body.username.str].passwordHash
     IN h.digest = <<h.salt, q.body.password.str>>

LockedOnArrival(q) ==
  /\ q.arr.attempts >= MAX_LOGIN_ATTEMPTS
  /\ now - q.arr.lastAttempt < LOCKOUT_TIME
ExpiredOnArrival(q) ==
  /\ q.arr.attempts >= MAX_LOGIN_ATTEMPTS
  /\ now - q.arr.lastAttempt >= LOCKOUT_TIME

AttemptsOf(la, ip) == IF ip \in DOMAIN la THEN la[ip].attempts ELSE 0

\* a login that got past csurf and validate
IsLogin(q) ==
  q.path = "login" /\ PresentsSessionToken(q) /\ HasCredentials(q)

\* C1: a POST to register, login or logout without a token of its session
\* is answered 403, whatever its body, the attempt record of its address
\* and its session are; the user table, the attempt records and the
\* identity of every session are as before the request.
C1_CsrfBeforeAll ==
  \A r \in Reqs :
    (Sent(r) /\ req[r].path \in PostPaths /\ ~PresentsSessionToken(req[r]))
      => /\ req[r].status = 403
         /\ req[r].lookups = 0 /\ req[r].verifies = 0
         /\ users = req[r].pre.users
         /\ loginAttempts = req[r].pre.loginAttempts
         /\ SameIdentity(req[r].pre.sessions, sessions)

\* a login without token from a locked-out address: 403, not 429
C1_Witness ==
  \E r \in Reqs :
    /\ Sent(r) /\ req[r].path = "login" /\ ~PresentsSessionToken(req[r])
    /\ req[r].status = 403
    /\ req[r].arr.attempts >= MAX_LOGIN_ATTEMPTS
    /\ ~req[r].body.password.def

\* C2: a login arriving from an address with five failures on record, the
\* last one less than LOCKOUT_TIME ago, is answered 429, also with the right
\* password; it looks no user up, verifies no password and leaves the
\* sessions as they were.
C2_LockedOut ==
  \A r \in Reqs :
    (Sent(r) /\ IsLogin(req[r]) /\ LockedOnArrival(req[r]))
      => /\ req[r].status = 429
         /\ req[r].lookups = 0 /\ req[r].verifies = 0
         /\ sessions = req[r].pre.sessions

C2_Witness ==
  \E r \in Reqs :
    /\ Sent(r) /\ IsLogin(req[r]) /\ LockedOnArrival(req[r])
    /\ PasswordMatches(req[r])
    /\ req[r].status = 429

\* C3: a login arriving LOCKOUT_TIME or more after the last failure of a
\* locked-out address is not answered 429; if it fails, the address has one
\* failure on record afterwards.
C3_AfterWindow ==
  \A r \in Reqs :
    (Sent(r) /\ IsLogin(req[r]) /\ ExpiredOnArrival(req[r]))
      => /\ req[r].status \in {200, 401}
         /\ req[r].status = 401 =>
              /\ req[r].ip \in DOMAIN loginAttempts
              /\ loginAttempts[req[r].ip].attempts = 1
              /\ loginAttempts[req[r].ip].lastAttempt = now

C3_Witness ==
  \E r \in Reqs :
    /\ Sent(r) /\ IsLogin(req[r]) /\ ExpiredOnArrival(req[r])
    /\ req[r].status = 401
    /\ AttemptsOf(loginAttempts, req[r].ip) = 1

\* C4: with 1 to 4 failures on record for its address, a login with the
\* right password is answered 200 and leaves no attempt record for the
\* address.
C4_SuccessResets ==
  \A r \in Reqs :
    (/\ Sent(r) /\ IsLogin(req[r])
     /\ req[r].arr.attempts \in 1..(MAX_LOGIN_ATTEMPTS - 1)
     /\ PasswordMatches(req[r]))
      => /\ req[r].status = 200
         /\ req[r].ip \notin DOMAIN loginAttempts

C4_Witness ==
  \E r \in Reqs :
    /\ Sent(r) /\ IsLogin(req[r]) /\ PasswordMatches(req[r])
    /\ req[r].arr.attempts = MAX_LOGIN_ATTEMPTS - 1
    /\ now - req[r].arr.lastAttempt < LOCKOUT_TIME
    /\ req[r].status = 200
    /\ req[r].ip \notin DOMAIN loginAttempts

\* C5: whatever the count on record, a failure that comes LOCKOUT_TIME or
\* more after the last one starts a new count at 1.
C5_CountExpires ==
  \A r \in Reqs :
    (/\ Sent(r) /\ IsLogin(req[r]) /\ req[r].status = 401
     /\ req[r].arr.attempts >= 1
     /\ now - req[r].arr.lastAttempt >= LOCKOUT_TIME)
      => AttemptsOf(loginAttempts, req[r].ip) = 1

\* C6: the count of an address never exceeds MAX_LOGIN_ATTEMPTS, however
\* its logins overlap.
C6_AtMostFive ==
  \A ip \in DOMAIN loginAttempts :
    loginAttempts[ip].attempts <= MAX_LOGIN_ATTEMPTS

IsRegister(q) ==
  q.path = "register" /\ PresentsSessionToken(q) /\ registerSchema(q.body) = NoError

\* C8: a register for a username that exists is answered 409 Utilisateur
\* deja existant; users and session identities stay as they were.
C8_DuplicateIs409 ==
  \A r \in Reqs :
    (Sent(r) /\ IsRegister(req[r]) /\ Known(req[r]))
      => /\ req[r].status = 409
         /\ req[r].error = "Utilisateur deja existant"
         /\ users = req[r].pre.users
         /\ SameIdentity(req[r].pre.sessions, sessions)

\* C9: of two registers that both arrive while the username is free, one
\* is answered 201 and the other 409.
C9_OneWinner ==
  \A r \in Reqs :
    (Sent(r) /\ IsRegister(req[r]) /\ ~req[r].arr.taken)
      => IF Known(req[r]) THEN req[r].status = 409 ELSE req[r].status = 201

\* C10: right after a register answered 201, GET /profile on the session
\* of that request is answered 200 with the registered username.
C10_RegisterThenProfile ==
  \A r \in Reqs :
    (Sent(r) /\ req[r].path = "register" /\ req[r].status = 201)
      => /\ req[r].sid \in DOMAIN sessions
         /\ LET p == profileHandler(sessions[req[r].sid], users)
            IN /\ p.reply.status = 200
               /\ p.out.username = req[r].body.username.str

C10_Witness ==
  \E r \in Reqs :
    /\ Sent(r) /\ req[r].path = "register" /\ req[r].status = 201
    /\ req[r].body.username.str = bob
    /\ ann \in DOMAIN users

\* a logout that got past csurf
IsLogout(q) == q.path = "logout" /\ PresentsSessionToken(q)

\* C11: a logout answered 200 leaves no record of its session, and a GET
\* /profile that presents the cookie of a session that logout destroyed is
\* answered 401.
C11_ProfileAfterLogout ==
  /\ \A r \in Reqs :
       (Sent(r) /\ req[r].path = "logout" /\ req[r].status = 200)
         => req[r].sid \notin DOMAIN sessions
  /\ \A r \in Reqs :
       (Sent(r) /\ req[r].path = "profile" /\ req[r].cookie \in destroyed)
         => req[r].status = 401

\* the cookie of a session that was authenticated and logged out
C11_Witness ==
  \E r \in Reqs :
    /\ Sent(r) /\ req[r].path = "profile" /\ req[r].cookie \in destroyed
    /\ req[r].status = 401
    /\ DOMAIN users # {}

\* C12: a login with the username and password of a registered user, from
\* an address that is not locked out, is answered 200 with the user id that
\* the register of that username returned, whichever users were registered
\* before or after it.
C12_RoundTrip ==
  \A r \in Reqs :
    (/\ Sent(r) /\ IsLogin(req[r]) /\ PasswordMatches(req[r])
     /\ ~LockedOnArrival(req[r]))
      => /\ req[r].status = 200
         /\ req[r].body.username.str \in DOMAIN registered
         /\ req[r].out.id = registered[req[r].body.username.str]
         /\ req[r].out.username = req[r].body.username.str

\* ann registered, logged out, bob registered, ann logs in
C12_Witness ==
  \E r \in Reqs :
    /\ Sent(r) /\ IsLogin(req[r]) /\ req[r].status = 200
    /\ req[r].body.username.str = ann
    /\ ann \in DOMAIN registered /\ bob \in DOMAIN registered
    /\ registered[ann] < registered[bob]
    /\ req[r].out.id = registered[ann]
    /\ destroyed # {}

IdentityIn(store, s) ==
  IF s \in DOMAIN store THEN <<store[s].userId, store[s].username>>
  ELSE <<0, <<>>>>

ErrorStatuses == {400, 401, 403, 409, 429, 500}

\* the response of r is written in this step
Answers(r) == req[r].pc # "sent" /\ req'[r].pc = "sent"

\* C13: a step changes the userId or username of a session only when it
\* answers a register that created the user (201) or a login whose password
\* matches the stored hash (200), and sets them to that user; a step that
\* answers 400, 401, 403, 409, 429 or 500 changes no session's userId or
\* username.
C13_EstablishOnly ==
  [][/\ \A s \in DOMAIN sessions' :
          IdentityIn(sessions', s) # IdentityIn(sessions, s)
            => \E r \in Reqs :
                 /\ Answers(r) /\ req'[r].sid = s
                 /\ LET u == req'[r].body.username.str
                    IN \/ /\ req'[r].path = "register" /\ req'[r].status = 201
                          /\ u \notin DOMAIN users /\ u \in DOMAIN users'
                          /\ IdentityIn(sessions', s) = <<users'[u].id, u>>
                       \/ /\ req'[r].path = "login" /\ req'[r].status = 200
                          /\ u \in DOMAIN users
                          /\ users[u].passwordHash.digest
                               = <<users[u].passwordHash.salt,
                                   req'[r].body.password.str>>
                          /\ IdentityIn(sessions', s) = <<users[u].id, u>>
     /\ \A r \in Reqs :
          (Answers(r) /\ req'[r].status \in ErrorStatuses)
            => SameIdentity(sessions, sessions')]_vars

\* a login with a wrong password on a session that is authenticated
C13_Witness ==
  \E r \in Reqs :
    /\ Sent(r) /\ IsLogin(req[r]) /\ req[r].status = 401
    /\ req[r].sid \in DOMAIN sessions
    /\ sessions[req[r].sid].userId # 0
    /\ sessions[req[r].sid] = req[r].pre.sessions[req[r].sid]

\* C14: the userId of an authenticated session stays what it is until the
\* session is destroyed, and a destroyed session is never authenticated
\* again.
C14_SessionTransitions ==
  [][/\ \A s \in DOMAIN sessions :
          sessions[s].userId # 0
            => \/ s \notin DOMAIN sessions'
               \/ sessions'[s].userId = sessions[s].userId
     /\ \A s \in destroyed :
          s \in DOMAIN sessions' => sessions'[s].userId = 0]_vars

\* C15: requireAuth calls next once and sends nothing iff the session is
\* there and its userId a non-empty string or a non-zero number; otherwise
\* it sends 401 Non autorise and does not call next.
C15_RequireAuth ==
  call.pc = "done" =>
    IF /\ call.session.t = "object"
       /\ \/ call.session.userId.t = "string" /\ call.session.userId.s # <<>>
          \/ call.session.userId.t = "number" /\ call.session.userId.n # 0
      THEN call.next = 1 /\ call.status = 0
      ELSE call.next = 0 /\ call.status = 401 /\ call.error = "Non autorise"

ResponseFields == {"id", "username", "createdAt", "updatedAt", "csrfToken"}

\* C17: no response carries a passwordHash: a response body has no user
\* part, or one whose fields are among id, username, the timestamps and the
\* csrf token.
C17_NoHashInResponse ==
  \A r \in Reqs :
    Sent(r) =>
      \/ req[r].out = NoView
      \/ /\ DOMAIN req[r].out \subseteq ResponseFields
         /\ "passwordHash" \notin DOMAIN req[r].out

\* the response of a register, the hash being stored
C17_Witness ==
  \E r \in Reqs :
    /\ Sent(r) /\ req[r].path = "register" /\ req[r].status = 201
    /\ req[r].body.username.str \in DOMAIN users
    /\ users[req[r].body.username.str].passwordHash # NoHash
    /\ DOMAIN req[r].out = {"id", "username", "createdAt"}

\* C20: a logout with a token of its session is answered 200, destroys the
\* session and clears the cookie when the session is authenticated; on any
\* other session it is answered 401 Non autorise and the sessions stay as
\* they were.
C20_Logout ==
  \A r \in Reqs :
    (Sent(r) /\ IsLogout(req[r]))
      => IF req[r].orig.userId # 0
           THEN /\ req[r].status = 200
                /\ req[r].sid \notin DOMAIN sessions
                /\ req[r].clearCookie
           ELSE /\ req[r].status = 401
                /\ req[r].error = "Non autorise"
                /\ ~req[r].clearCookie
                /\ sessions = req[r].pre.sessions

\* a logout on a session that nobody logged in on
C20_Witness ==
  \E r \in Reqs :
    /\ Sent(r) /\ IsLogout(req[r]) /\ req[r].orig.userId = 0
    /\ req[r].status = 401
    /\ req[r].sid \in DOMAIN sessions

\* C16: a GET /profile on an authenticated session whose userId matches no
\* stored user is answered 401.
C16_DeletedUserIs401 ==
  \A r \in Reqs :
    (/\ Sent(r) /\ req[r].path = "profile"
     /\ req[r].orig.userId # 0
     /\ \A u \in DOMAIN req[r].pre.users :
          req[r].pre.users[u].id # req[r].orig.userId)
      => req[r].status = 401

\* the request comes on a session of the store, with a token that GET
\* /csrf-token sent on that session
CarriesIssuedToken(q) ==
  /\ q.sid = q.cookie
  /\ <<q.cookie, q.token>> \in issued

\* C18: a POST on a live session that carries any token GET /csrf-token
\* ever sent on that session passes the csrf check, whatever tokens were
\* sent and whoever logged in or registered on the session since.
C18_TokensStayValid ==
  \A r \in Reqs :
    (Sent(r) /\ req[r].path \in PostPaths /\ CarriesIssuedToken(req[r]))
      => req[r].status # 403

\* a logout with one of two tokens sent on a session that has logged in
C18_Witness ==
  \E r \in Reqs :
    /\ Sent(r) /\ req[r].path = "logout" /\ CarriesIssuedToken(req[r])
    /\ req[r].status = 200
    /\ \E t \in TokensKnown(TokenSalts) :
         t # req[r].token /\ <<req[r].cookie, t>> \in issued

\* C19: the answer to GET /csrf-token, /profile and /health is never the
\* 403 of the csrf check and is what the session and the user table make
\* it, with any token or none.
C19_SafeMethodsExempt ==
  \A r \in Reqs :
    (Sent(r) /\ req[r].path \in GetPaths)
      => /\ req[r].status # 403
         /\ req[r].path = "csrf-token" =>
              /\ req[r].status = 200
              /\ req[r].out.csrfToken.mac
                   = <<req[r].out.csrfToken.salt, req[r].sess.csrfSecret>>
         /\ req[r].path = "health" => req[r].status \in {200, 503}
         /\ req[r].path = "profile" =>
              IF req[r].orig.userId = 0 THEN req[r].status = 401
              ELSE IF \E u \in DOMAIN users : users[u].id = req[r].orig.userId
                THEN /\ req[r].status = 200
                     /\ req[r].out.id = req[r].orig.userId
              ELSE req[r].status = 404

\* a profile read that carries the token of another session
C19_Witness ==
  \E r \in Reqs :
    /\ Sent(r) /\ req[r].path = "profile"
    /\ req[r].token # NoToken /\ ~PresentsSessionToken(req[r])
    /\ req[r].status = 200

Refused(ip) ==
  {r \in Reqs : /\ Answers(r) /\ req'[r].path = "login" /\ req'[r].ip = ip
                /\ req'[r].status = 401}

\* C22: however logins overlap, a step that answers a login 401 raises the
\* count of its address by one and sets lastAttempt to the time of the step,
\* and no other step changes a count except by removing the record; so the
\* count is the number of 401 answers since the record was last removed.
C22_NoFailureDropped ==
  [][\A ip \in Ips :
       IF Refused(ip) # {}
         THEN /\ AttemptsOf(loginAttempts', ip) = AttemptsOf(loginAttempts, ip) + 1
              /\ loginAttempts'[ip].lastAttempt = now
         ELSE AttemptsOf(loginAttempts', ip) \in {AttemptsOf(loginAttempts, ip), 0}]_vars

\* the second of two overlapping logins is refused, later than the first
C22_Witness ==
  \E r \in Reqs :
    /\ Sent(r) /\ req[r].path = "login" /\ req[r].status = 401
    /\ req[r].arr.attempts = 0
    /\ AttemptsOf(loginAttempts, req[r].ip) = 2
    /\ loginAttempts[req[r].ip].lastAttempt = now
    /\ now > 0

RecordOf(la, ip) ==
  IF ip \in DOMAIN la THEN <<TRUE, la[ip].attempts, la[ip].lastAttempt>>
  ELSE <<FALSE, 0, 0>>

\* C23: a step changes the attempt record of an address only for a login
\* from that address that got past csurf and validate: by one more attempt
\* when it answers 401, by removing it when it answers 200 or when the
\* login finds the lockout window expired.  No other request and no request
\* from another address changes it.
C23_RecordFrame ==
  [][\A ip \in Ips :
       RecordOf(loginAttempts', ip) # RecordOf(loginAttempts, ip)
         => \E r \in Reqs :
              /\ req'[r].ip = ip /\ req'[r].path = "login"
              /\ PresentsSessionToken(req'[r]) /\ HasCredentials(req'[r])
              /\ \/ /\ Answers(r) /\ req'[r].status = 401
                    /\ RecordOf(loginAttempts', ip)
                         = <<TRUE, AttemptsOf(loginAttempts, ip) + 1, now>>
                 \/ /\ Answers(r) /\ req'[r].status = 200
                    /\ ip \notin DOMAIN loginAttempts'
                 \/ /\ req[r].pc = "idle" /\ req'[r].pc = "lookup"
                    /\ AttemptsOf(loginAttempts, ip) >= MAX_LOGIN_ATTEMPTS
                    /\ now - loginAttempts[ip].lastAttempt >= LOCKOUT_TIME
                    /\ ip \notin DOMAIN loginAttempts']_vars

\* a login from 10.0.0.2 succeeds while 10.0.0.1 has failures on record
C23_Witness ==
  \E r \in Reqs :
    /\ Sent(r) /\ req[r].path = "login" /\ req[r].ip = "10.0.0.2"
    /\ req[r].status = 200
    /\ "10.0.0.1" \in DOMAIN loginAttempts
    /\ loginAttempts["10.0.0.1"].attempts >= 1
    /\ RecordOf(loginAttempts, "10.0.0.1")
         = RecordOf(req[r].pre.loginAttempts, "10.0.0.1")

Settled == call.pc \in {"returned", "thrown"}
\* the errors the claim calls retryable
Transient(e) ==
  \/ e.code \in {P1001, P1002, P1008, P1017}
  \/ includes(e.message, timeoutWord)
  \/ includes(e.message, connectionWord)
Last(q) == q[Len(q)]

\* C24: withRetry ends; it calls the operation at most MAX_RETRIES + 1
\* times, each call but the last having failed with a retryable error and
\* each later call coming RETRY_DELAY after the one before; it returns on
\* the first success, rethrows a non-retryable error at once and rethrows
\* the last error when the retries are used up.
C24_WithRetry ==
  /\ <>Settled
  /\ [](/\ Len(call.outcomes) <= MAX_RETRIES + 1
        /\ \A i \in DOMAIN call.outcomes :
             i < Len(call.outcomes)
               => /\ ~call.outcomes[i].ok
                  /\ Transient(call.outcomes[i])
                  /\ call.at[i + 1] >= call.at[i] + RETRY_DELAY
        /\ call.pc = "returned" => Last(call.outcomes).ok
        /\ call.pc = "thrown"
             => /\ ~Last(call.outcomes).ok
                /\ \/ ~Transient(Last(call.outcomes))
                   \/ Len(call.outcomes) = MAX_RETRIES + 1
        /\ call.pc = "delay"
             => /\ Len(call.outcomes) <= MAX_RETRIES
                /\ ~Last(call.outcomes).ok
                /\ Transient(Last(call.outcomes)))

\* three retryable failures, then a success on the fourth call
C24_Witness ==
  /\ call.pc = "returned"
  /\ Len(call.outcomes) = MAX_RETRIES + 1
  /\ now = MAX_RETRIES * RETRY_DELAY

\* C25: a createUser whose operation failed is not executed again.
C25_CreateNotRepeated ==
  call.op = "createUser" => Len(call.outcomes) <= 1

\* C26: requestTimeout(t), t being 30000 when omitted, calls next() once on
\* entry; it answers 408 Timeout de la requete when t has elapsed with no
\* response sent, never after a response; a response sent by the handler
\* cancels the timer; the request has one response at most.
C26_RequestTimeout ==
  call.mount \in {"own", "auth"} =>
    /\ call.next = (IF call.pc = "ready" THEN 0 ELSE 1)
    /\ call.responses <= 1
    /\ call.pc = "pending" =>
         /\ call.deadline = (IF call.mount = "own" /\ call.arg # 0
                               THEN call.arg ELSE 30000)
         /\ call.status = 408
              <=> call.timer = "fired"
         /\ call.status = 408
              => /\ now >= call.deadline
                 /\ call.error = "Timeout de la requete"
                 /\ call.responses = 1
         /\ call.headersSent /\ call.status # 408
              => call.handled /\ call.timer = "cleared"
         /\ now > call.deadline => call.headersSent

\* the default of 30 s elapsed with no answer of the handler: 408
C26_Witness ==
  /\ call.mount = "own" /\ call.arg = 0
  /\ call.status = 408 /\ call.code = REQUEST_TIMEOUT
  /\ now = 30000
  /\ ~call.handled

\* C27: a request to any route under /api that arrived more than 30 s ago
\* has got its one response, whether or not its handler's awaited call
\* returned.
C27_AnsweredBy30s ==
  /\ call.mount \in {"auth", "health", "root"}
  /\ call.pc = "pending"
  /\ now > 30000
  => call.headersSent /\ call.responses = 1

\* the rules the claim gives for the two fields
UsernameRules(v) ==
  /\ v.def /\ Len(v.str) >= 3 /\ Len(v.str) <= 30
  /\ AllCh(v.str, LowerCh \cup UpperCh \cup DigitCh)
PasswordRules(v) ==
  /\ v.def /\ Len(v.str) >= 8
  /\ HasCh(v.str, LowerCh) /\ HasCh(v.str, UpperCh)
  /\ HasCh(v.str, DigitCh) /\ HasCh(v.str, {"@","$","!","%","*","?","&"})

\* C28: a register that got past csurf passes validation exactly when its
\* username is 3 to 30 alphanumeric characters and its password has 8
\* characters or more with a lower-case letter, an upper-case letter, a digit
\* and one of @$!%*?&; any other is answered 400, creates no user and
\* changes no session's identity.
C28_RegisterRules ==
  \A r \in Reqs :
    Sent(r) /\ req[r].path = "register" /\ PresentsSessionToken(req[r])
      => IF UsernameRules(req[r].body.username) /\ PasswordRules(req[r].body.password)
           THEN req[r].status # 400
           ELSE /\ req[r].status = 400
                /\ users = req[r].pre.users
                /\ SameIdentity(req[r].pre.sessions, sessions)

\* C29: the response of a failed validation is 400 with an error string
\* and a details list.
C29_ValidationDetails ==
  call.pc = "done" /\ call.status = 400
    => "error" \in DOMAIN call.json /\ "details" \in DOMAIN call.json

Answer(status, error, code) ==
  /\ call.status = status
  /\ call.json["error"] = error
  /\ call.json["code"] = code

\* the error matches none of the five rules of errorHandler
Unclassified(e) ==
  /\ e.code \notin {EBADCSRFTOKEN, LIMIT_FILE_SIZE}
  /\ ~(e.code # <<>> /\ e.code[1] = "P")
  /\ ~e.isJoi
  /\ ~(e.jsonBody /\ e.status = 400)

C33_ErrorsToNext ==
  call.pc = "done" =>
    /\ call.calls = 1
    /\ ~call.threw
    /\ IF call.fn.does = "return"
         THEN call.passed = <<>>
         ELSE call.passed = <<call.fn.err>>

\* what the claim says of a value: strings trimmed and stripped of < and >
\* at any depth, every key kept, everything else as it was
RECURSIVE Cleaned(_)
Cleaned(v) ==
  IF v.t = "string" THEN JsStr(removeAngles(trim(v.s)))
  ELSE IF v.t = "object"
    THEN [v EXCEPT !.f = [k \in DOMAIN v.f |-> Cleaned(v.f[k])]]
  ELSE v

RECURSIVE Clean(_)
Clean(v) ==
  IF v.t = "string"
    THEN /\ trim(v.s) = v.s
         /\ \A i \in DOMAIN v.s : v.s[i] \notin {"<", ">"}
  ELSE IF v.t = "object" THEN \A k \in DOMAIN v.f : Clean(v.f[k])
  ELSE TRUE

\* C37: what sanitizeInput leaves has no leading or trailing whitespace and
\* no < or >, and a second application leaves it as it is.
C37_FixedPoint ==
  /\ Len(call.seen) >= 1
       => Clean(call.seen[1].body) /\ Clean(call.seen[1].query)
          /\ Clean(call.seen[1].params)
  /\ Len(call.seen) >= 2 => call.seen[2] = call.seen[1]

\* C35: a login that completes while its address is locked out (five
\* failures on record, window not elapsed) neither removes nor lowers the
\* record, whenever it passed the check.
C35_LockoutStays ==
  \A r \in Reqs :
    (/\ Sent(r) /\ req[r].path = "login"
     /\ AttemptsOf(req[r].pre.loginAttempts, req[r].ip) >= MAX_LOGIN_ATTEMPTS
     /\ now - req[r].pre.loginAttempts[req[r].ip].lastAttempt < LOCKOUT_TIME)
      => AttemptsOf(loginAttempts, req[r].ip)
           >= AttemptsOf(req[r].pre.loginAttempts, req[r].ip)

\* C36: a login answered 429 leaves the record of its address as it was,
\* count and lastAttempt; a login that comes LOCKOUT_TIME or more after the
\* last recorded failure is not answered 429.
C36_RefusedLeavesRecord ==
  \A r \in Reqs :
    Sent(r) /\ req[r].path = "login" =>
      /\ req[r].status = 429
           => /\ req[r].ip \in DOMAIN loginAttempts
              /\ loginAttempts[req[r].ip].attempts = req[r].arr.attempts
              /\ loginAttempts[req[r].ip].lastAttempt = req[r].arr.lastAttempt
              /\ loginAttempts = req[r].pre.loginAttempts
      /\ now - req[r].arr.lastAttempt >= LOCKOUT_TIME => req[r].status # 429

\* a login refused some time after the fifth failure
C36_Witness ==
  \E r \in Reqs :
    /\ Sent(r) /\ req[r].path = "login" /\ req[r].status = 429
    /\ req[r].arr.attempts = MAX_LOGIN_ATTEMPTS
    /\ now > req[r].arr.lastAttempt
    /\ loginAttempts[req[r].ip].lastAttempt = req[r].arr.lastAttempt

Exited == call.pc = "exited"

\* C38: once SIGTERM or SIGINT was received the process exits: with code 0
\* from the close of the server, which has no connection left, otherwise
\* with code 1 when 10 s have passed since the signal; it is never alive
\* later than that.
C38_EventuallyExits ==
  /\ [](call.signals # <<>> => <>Exited)
  /\ [](Exited => \/ call.code = 0 /\ call.event = "close" /\ call.conns = 0
                  \/ /\ call.code = 1 /\ call.event = "timer"
                     /\ now >= call.signalledAt + 10000)
  /\ [](call.signals # <<>> => now <= call.signalledAt + 10000)
  /\ [](~Exited /\ call.signals = <<>> => call.pc = "listening")

\* a connection stays open: forced exit 10 s after the signal
C38_Witness ==
  /\ Exited /\ call.code = 1 /\ call.conns > 0
  /\ call.signals = <<"SIGTERM">>
  /\ now = call.signalledAt + 10000

====
